---- MODULE Spec2Model ----
(***************************************************************************)
(* A model of pandas_datareader/edgar.py: EdgarIndexReader, the reader of  *)
(* the SEC EDGAR master index ("full" mode) and of the date-bounded daily  *)
(* indices found by walking the FTP tree under edgar/daily-index.          *)
(*                                                                         *)
(* Strings are sequences of one-character strings, so that the regular     *)
(* expressions and strptime of the source are computed, not assumed.       *)
(* A Python call that may raise returns [raised, value]: raised is ""      *)
(* or the exception's class name.  Python's None is the empty tuple and a  *)
(* present value v is <<v>>.                                               *)
(***************************************************************************)
EXTENDS Integers, Sequences, FiniteSets, TLC

VARIABLES
    op, arg, ret,            \* a single call of one method: its name, arguments, result
    pc,                      \* position of read() in daily mode
    start, end,              \* self.start, self.end
    session,                 \* state of the module-level _SEC_FTP
    log,                     \* the FTP commands issued so far, in order
    served,                  \* directory path -> the listing the server returned for it
    stack,                   \* the active calls of _get_mlsd_tree, innermost last
    retval,                  \* the list returned by the call that just ended
    file_index,              \* _read_daily_data: file_index
    pos,                     \* _read_daily_data: index of the next idx_entry
    fetched,                 \* the entries whose file was requested, in order
    doc_index,               \* _read_daily_data: doc_index, its rows in order
    error                    \* "" or the exception that ended read()

callVars == <<op, arg, ret>>
readVars == <<pc, start, end, session, log, served, stack, retval,
              file_index, pos, fetched, doc_index, error>>
vars == <<op, arg, ret, pc, start, end, session, log, served, stack, retval,
          file_index, pos, fetched, doc_index, error>>

-----------------------------------------------------------------------------
(* Python values *)

None == <<>>
Some(v) == <<v>>
Ok(v) == [raised |-> "", value |-> v]
Raise(e) == [raised |-> e, value |-> None]

-----------------------------------------------------------------------------
(* Characters and strings *)

Digits == {"0", "1", "2", "3", "4", "5", "6", "7", "8", "9"}
Letters == {"a", "b", "c", "d", "e", "f", "g", "i", "k", "m", "o", "r", "s", "t",
            "x", "z", "A", "B", "D", "K", "Q", "R", "T"}

\* \w of the re module, on the characters the model uses
IsWord(c) == c \in Digits \cup Letters \cup {"_"}

DigitVal(c) ==
    CASE c = "0" -> 0 [] c = "1" -> 1 [] c = "2" -> 2 [] c = "3" -> 3
      [] c = "4" -> 4 [] c = "5" -> 5 [] c = "6" -> 6 [] c = "7" -> 7
      [] c = "8" -> 8 [] c = "9" -> 9

\* the characters of s from position i (1-based) on
From(s, i) == SubSeq(s, i, Len(s))

\* s[i..] begins with the literal p
StartsWithAt(s, i, p) ==
    /\ i + Len(p) - 1 <= Len(s)
    /\ \A k \in 1..Len(p) : s[i + k - 1] = p[k]

\* the end (exclusive) of the longest run of digits that begins at position i
RECURSIVE DigitRunEnd(_, _)
DigitRunEnd(s, i) ==
    IF i <= Len(s) /\ s[i] \in Digits THEN DigitRunEnd(s, i + 1) ELSE i

\* the value of a run of decimal digits
RECURSIVE DecimalValue(_)
DecimalValue(s) ==
    IF s = <<>> THEN 0
    ELSE 10 * DecimalValue(SubSeq(s, 1, Len(s) - 1)) + DigitVal(s[Len(s)])

DotIdx == <<".", "i", "d", "x">>
MasterDot == <<"m", "a", "s", "t", "e", "r", ".">>

-----------------------------------------------------------------------------
(* datetime *)

Date(y, m, d) == [year |-> y, month |-> m, day |-> d]

DateLT(a, b) ==
    \/ a.year < b.year
    \/ a.year = b.year /\ a.month < b.month
    \/ a.year = b.year /\ a.month = b.month /\ a.day < b.day

DateLE(a, b) == a = b \/ DateLT(a, b)

IsLeap(y) == y % 4 = 0 /\ (y % 100 # 0 \/ y % 400 = 0)

DaysInMonth(y, m) ==
    IF m = 2 THEN (IF IsLeap(y) THEN 29 ELSE 28)
    ELSE IF m \in {4, 6, 9, 11} THEN 30 ELSE 31

\* datetime(y, m, d) exists
ValidDate(y, m, d) ==
    /\ y >= 1 /\ y <= 9999
    /\ m >= 1 /\ m <= 12
    /\ d >= 1 /\ d <= DaysInMonth(y, m)

\* %y of strptime: 69..99 are 1969..1999, 00..68 are 2000..2068
TwoDigitYear(yy) == IF yy >= 69 THEN 1900 + yy ELSE 2000 + yy

MakeDate(y, m, d) ==
    IF ValidDate(y, m, d) THEN Ok(Date(y, m, d)) ELSE Raise("ValueError")

\* datetime.strptime(s, fmt) for a string s of digits only and the three
\* formats the source uses; on such a string every directive takes its full width
Strptime(s, fmt) ==
    CASE fmt = "%m%d%y" /\ Len(s) = 6 ->
            MakeDate(TwoDigitYear(DecimalValue(SubSeq(s, 5, 6))),
                     DecimalValue(SubSeq(s, 1, 2)), DecimalValue(SubSeq(s, 3, 4)))
      [] fmt = "%y%m%d" /\ Len(s) = 6 ->
            MakeDate(TwoDigitYear(DecimalValue(SubSeq(s, 1, 2))),
                     DecimalValue(SubSeq(s, 3, 4)), DecimalValue(SubSeq(s, 5, 6)))
      [] fmt = "%Y%m%d" /\ Len(s) = 8 ->
            MakeDate(DecimalValue(SubSeq(s, 1, 4)),
                     DecimalValue(SubSeq(s, 5, 6)), DecimalValue(SubSeq(s, 7, 8)))
      [] OTHER -> Raise("ValueError")

EDGAR_MIN_DATE == Date(1994, 7, 1)
EDGAR_MAX_6_DIGIT_DATE == Date(1998, 5, 15)

-----------------------------------------------------------------------------
(* _FILENAME_DATE_RE, _FILENAME_MASTER_RE *)

\* \w*?\.(\d*)\.idx matches at position i: the word characters from i reach a
\* ".", the digits after it are followed by ".idx".  The "." that ends \w*? is
\* the first character from i on that is no word character.
RECURSIVE WordRunEnd(_, _)
WordRunEnd(s, i) ==
    IF i <= Len(s) /\ IsWord(s[i]) THEN WordRunEnd(s, i + 1) ELSE i

DateReMatchesAt(s, i) ==
    LET dot == WordRunEnd(s, i)
    IN  /\ dot <= Len(s)
        /\ s[dot] = "."
        /\ StartsWithAt(s, DigitRunEnd(s, dot + 1), DotIdx)

\* group(1) of the match at position i
DateReGroup(s, i) ==
    LET dot == WordRunEnd(s, i)
    IN  SubSeq(s, dot + 1, DigitRunEnd(s, dot + 1) - 1)

\* re.search(_FILENAME_DATE_RE, s): None, or <<group(1)>> of the leftmost match
FilenameDateSearch(s) ==
    LET hits == {i \in 1..(Len(s) + 1) : DateReMatchesAt(s, i)}
    IN  IF hits = {} THEN None
        ELSE Some(DateReGroup(s, CHOOSE i \in hits : \A j \in hits : i <= j))

\* re.match(_FILENAME_MASTER_RE, s) is not None
FilenameMasterMatch(s) ==
    /\ StartsWithAt(s, 1, MasterDot)
    /\ StartsWithAt(s, DigitRunEnd(s, Len(MasterDot) + 1), DotIdx)

-----------------------------------------------------------------------------
(* EdgarIndexReader._get_index_date *)

\* a 6-digit run whose last two characters are '94'
EndsIn94(idx_date) == SubSeq(idx_date, 5, 6) = <<"9", "4">>

\* as IndexDateOfRun, with the 6-digit limit taken as "on or after"
IndexDateOfRun_mut_cutoff(idx_date) ==
    IF Len(idx_date) = 6 THEN
        IF EndsIn94(idx_date) THEN
            LET r == Strptime(idx_date, "%m%d%y")
            IN  IF r.raised # "" THEN r ELSE Ok(Some(r.value))
        ELSE
            LET r == Strptime(idx_date, "%y%m%d")
            IN  IF r.raised # "" THEN r
                ELSE IF DateLE(EDGAR_MAX_6_DIGIT_DATE, r.value) THEN Ok(None)
                ELSE Ok(Some(r.value))
    ELSE IF Len(idx_date) = 8 THEN
        LET r == Strptime(idx_date, "%Y%m%d")
        IN  IF r.raised # "" THEN r ELSE Ok(Some(r.value))
    ELSE
        Raise("UnboundLocalError")

\* the body of the try block, given group(1) of the match
IndexDateOfRun(idx_date) ==
    IF Len(idx_date) = 6 THEN
        IF EndsIn94(idx_date) THEN
            LET r == Strptime(idx_date, "%m%d%y")
            IN  IF r.raised # "" THEN r ELSE Ok(Some(r.value))
        ELSE
            LET r == Strptime(idx_date, "%y%m%d")
            IN  IF r.raised # "" THEN r
                ELSE IF DateLT(EDGAR_MAX_6_DIGIT_DATE, r.value) THEN Ok(None)
                ELSE Ok(Some(r.value))
    ELSE IF Len(idx_date) = 8 THEN
        LET r == Strptime(idx_date, "%Y%m%d")
        IN  IF r.raised # "" THEN r ELSE Ok(Some(r.value))
    ELSE
        \* filedate was never assigned: "return filedate" raises
        Raise("UnboundLocalError")

\* no match: .group(1) of None raises AttributeError, which is caught
get_index_date(filename) ==
    LET m == FilenameDateSearch(filename)
    IN  IF m = None THEN Ok(None) ELSE IndexDateOfRun(m[1])

-----------------------------------------------------------------------------
(* EdgarIndexReader._check_idx *)

\* Python's truth value of what _check_idx returns: True, False, or None when
\* the name matches and the function falls off its end
Truthy(v) == v = "True"

\* as check_idx, without the comparison with end
check_idx_mut_no_upper(idx_entry, s, e) ==
    IF FilenameMasterMatch(idx_entry.name) THEN
        IF idx_entry.date # None THEN
            IF DateLE(s, idx_entry.date[1]) THEN "True" ELSE "None"
        ELSE "None"
    ELSE "False"

check_idx(idx_entry, s, e) ==
    IF FilenameMasterMatch(idx_entry.name) THEN
        IF idx_entry.date # None THEN
            IF DateLE(s, idx_entry.date[1]) /\ DateLE(idx_entry.date[1], e)
            THEN "True" ELSE "None"
        ELSE "None"
    ELSE "False"

-----------------------------------------------------------------------------
(* EdgarIndexReader._sanitize_dates *)

\* _BaseReader._sanitize_dates (pandas_datareader/base.py): a given date is
\* returned as it is and an absent one is replaced by a default of the base
\* class, ds or de; no error is raised for start > end
base_sanitize_dates(s, e, ds, de) ==
    <<IF s = None THEN ds ELSE s[1], IF e = None THEN de ELSE e[1]>>

\* what the base class puts in the place of an absent date
BaseDefaults == {Date(2010, 1, 1), Date(2020, 6, 1)}

DEFAULT_START == Date(2015, 1, 1)
DEFAULT_END == Date(2015, 1, 3)

\* as sanitize_dates, without the clamp to _EDGAR_MIN_DATE
sanitize_dates_mut_no_clamp(s, e, ds, de) ==
    LET b == base_sanitize_dates(s, e, ds, de)
    IN  <<IF s = None THEN DEFAULT_START ELSE b[1],
          IF e = None THEN DEFAULT_END ELSE b[2]>>

\* returns <<start, end>>
sanitize_dates(s, e, ds, de) ==
    LET b == base_sanitize_dates(s, e, ds, de)
        start1 == IF s = None THEN DEFAULT_START ELSE b[1]
        end1 == IF e = None THEN DEFAULT_END ELSE b[2]
    IN  <<IF DateLT(start1, EDGAR_MIN_DATE) THEN EDGAR_MIN_DATE ELSE start1, end1>>

-----------------------------------------------------------------------------
(* EdgarIndexReader._remove_header, _fix_old_file_paths, _read_one_data *)

DIVIDER_LEN == 14

Dashes(n) == [k \in 1..n |-> "-"]

\* re.search(_DIVIDER, line) is not None
DividerSearch(line) ==
    \E i \in 1..Len(line) : StartsWithAt(line, i, Dashes(DIVIDER_LEN))

\* the position of the first "\n" of s from i on, or Len(s) + 1
RECURSIVE NewlineAt(_, _)
NewlineAt(s, i) ==
    IF i > Len(s) \/ s[i] = "\n" THEN i ELSE NewlineAt(s, i + 1)

\* StringIO.readlines(): the lines of s, each with the "\n" that ends it
RECURSIVE ReadLines(_)
ReadLines(s) ==
    IF s = <<>> THEN <<>>
    ELSE LET n == NewlineAt(s, 1)
         IN  IF n > Len(s) THEN <<s>>
             ELSE <<SubSeq(s, 1, n)>> \o ReadLines(From(s, n + 1))

\* the loop of _remove_header over the lines from position k on; header is the
\* flag and out what has been written to cleaned_datafile
RECURSIVE RemoveHeaderLoop(_, _, _, _)
RemoveHeaderLoop(lines, k, header, out) ==
    IF k > Len(lines) THEN out
    ELSE IF header = FALSE
         THEN RemoveHeaderLoop(lines, k + 1, header, out \o lines[k] \o <<"\n">>)
    ELSE IF DividerSearch(lines[k])
         THEN RemoveHeaderLoop(lines, k + 1, FALSE, out)
    ELSE RemoveHeaderLoop(lines, k + 1, header, out)

\* as remove_header, the divider line written as the first data line
remove_header_mut_keep_divider(data) ==
    LET lines == ReadLines(data)
        RECURSIVE Loop(_, _, _)
        Loop(k, header, out) ==
            IF k > Len(lines) THEN out
            ELSE IF header = FALSE \/ DividerSearch(lines[k])
                 THEN Loop(k + 1, FALSE, out \o lines[k] \o <<"\n">>)
            ELSE Loop(k + 1, header, out)
    IN  Loop(1, TRUE, <<>>)

\* the text of the stream _remove_header returns
remove_header(data) == RemoveHeaderLoop(ReadLines(data), 1, TRUE, <<>>)

EDGAR == <<"e", "d", "g", "a", "r", "/">>
NaN == <<"NaN">>

\* raises TypeError on a missing value: re.match wants a string
fix_old_file_paths(path) ==
    IF path = NaN THEN Raise("TypeError")
    ELSE IF ~StartsWithAt(path, 1, EDGAR) THEN Ok(EDGAR \o path)
    ELSE Ok(path)

\* s cut at every occurrence of the character sep
RECURSIVE Split(_, _)
Split(s, sep) ==
    LET hits == {i \in 1..Len(s) : s[i] = sep}
    IN  IF hits = {} THEN <<s>>
        ELSE LET n == CHOOSE i \in hits : \A j \in hits : i <= j
             IN  <<SubSeq(s, 1, n - 1)>> \o Split(From(s, n + 1), sep)

RECURSIVE SelectNonEmpty(_)
SelectNonEmpty(ss) ==
    IF ss = <<>> THEN <<>>
    ELSE (IF ss[1] = <<>> THEN <<>> ELSE <<ss[1]>>) \o SelectNonEmpty(Tail(ss))

NCOLUMNS == 5

\* read_csv(index_file, delimiter='|', header=None, index_col=False,
\* names=_COLUMNS): one row per line that is not blank, the fields of a line
\* with fewer than five filled up with missing values, an empty field missing
\* too; no line of the modelled files has more than five fields
read_csv(text) ==
    LET lines == SelectNonEmpty(Split(text, "\n"))
        Row(line) ==
            LET f == Split(line, "|")
            IN  [c \in 1..NCOLUMNS |->
                    IF c > Len(f) \/ f[c] = <<>> THEN NaN ELSE f[c]]
    IN  [k \in 1..Len(lines) |-> Row(lines[k])]

\* _read_one_data on the decoded text of the file: the rows of the index, or
\* the error of the first filename that cannot be fixed
read_one_data(text) ==
    LET index == read_csv(remove_header(text))
        bad == {k \in 1..Len(index) : fix_old_file_paths(index[k][NCOLUMNS]).raised # ""}
    IN  IF bad # {} THEN Raise("TypeError")
        ELSE Ok([k \in 1..Len(index) |->
                    [index[k] EXCEPT ![NCOLUMNS] = fix_old_file_paths(@).value]])

-----------------------------------------------------------------------------
(* EdgarIndexReader._process_mlsd_line, _get_mlsd, _check_mlsd_year *)

\* A line of an MLSD listing is [facts, name]: the text
\*     <key>=<val>;<key>=<val>;...;<key>=<val>; <name>
\* of its facts in order, a fact being [key, val].
Fact(k, v) == [key |-> k, val |-> v]

\* re.match(_MLSD_VALUES_RE, line): the line must begin with the fact modify,
\* and type=...; must be followed by another ";" before "; <name>", so a type
\* fact counts only when a further fact follows it.  The greedy .* before
\* type= takes the last such fact.
TypeFacts(line) ==
    {t \in 2..(Len(line.facts) - 1) : line.facts[t].key = "type"}

MlsdValuesMatch(line) ==
    /\ Len(line.facts) >= 1
    /\ line.facts[1].key = "modify"
    /\ TypeFacts(line) # {}

\* the entry of a line: modify, type, name, and the date of the name
process_mlsd_line(line) ==
    IF ~MlsdValuesMatch(line) THEN Raise("AttributeError")
    ELSE LET t == CHOOSE t \in TypeFacts(line) : \A u \in TypeFacts(line) : u <= t
             d == get_index_date(line.name)
         IN  IF d.raised # "" THEN d
             ELSE Ok([modify |-> line.facts[1].val, type |-> line.facts[t].val,
                      name |-> line.name, date |-> d.value])

\* the loop of _get_mlsd over the lines the server sent for dir
RECURSIVE GetMlsdLoop(_, _, _, _)
GetMlsdLoop(dir, dir_list, k, dict_list) ==
    IF k > Len(dir_list) THEN Ok(dict_list)
    ELSE LET e == process_mlsd_line(dir_list[k])
         IN  IF e.raised # "" THEN e
             ELSE GetMlsdLoop(dir, dir_list, k + 1,
                      Append(dict_list, [modify |-> e.value.modify, type |-> e.value.type,
                                         name |-> e.value.name, date |-> e.value.date,
                                         path |-> dir]))

get_mlsd(dir, dir_list) == GetMlsdLoop(dir, dir_list, 1, <<>>)

\* int(s) for a string of the model's characters: its value when s is a
\* non-empty run of digits, ValueError otherwise
ParseInt(s) ==
    IF s # <<>> /\ \A k \in 1..Len(s) : s[k] \in Digits
    THEN Ok(DecimalValue(s)) ELSE Raise("ValueError")

\* only TypeError is caught, and int() of a string raises ValueError
check_mlsd_year(entry, s, e) ==
    LET n == ParseInt(entry.name)
    IN  IF n.raised # "" THEN n
        ELSE IF s.year <= n.value /\ n.value <= e.year THEN Ok("True")
        ELSE Ok("False")

-----------------------------------------------------------------------------
(* What the FTP server holds *)

EDGAR_DAILY == <<"e", "d", "g", "a", "r", "/", "d", "a", "i", "l", "y", "-",
                 "i", "n", "d", "e", "x">>
URL_DAILY == <<"f", "t", "p", ":", "/", "/", "f", "t", "p", ".", "s", "e", "c",
               ".", "g", "o", "v", "/">>

MlsdLine(t, n) ==
    [facts |-> <<Fact("modify", "1"), Fact("type", t), Fact("size", "0")>>, name |-> n]

DirLine(n) == MlsdLine("dir", n)
FileLine(n) == MlsdLine("file", n)

\* the type fact first: the line does not match
TypeFirstLine(n) ==
    [facts |-> <<Fact("type", "file"), Fact("modify", "1"), Fact("size", "0")>>, name |-> n]

\* no fact after the type fact: the line does not match
TypeLastLine(n) ==
    [facts |-> <<Fact("modify", "1"), Fact("type", "file")>>, name |-> n]

\* two type facts: the later one is taken
TwoTypesLine(n) ==
    [facts |-> <<Fact("modify", "1"), Fact("type", "dir"), Fact("type", "file"),
                 Fact("size", "0")>>, name |-> n]

Y1993 == <<"1", "9", "9", "3">>
Y1998 == <<"1", "9", "9", "8">>
Misc == <<"m", "i", "s", "c">>
Qtr2 == <<"Q", "T", "R", "2">>
Name19980518 == <<"m", "a", "s", "t", "e", "r", ".", "1", "9", "9", "8", "0", "5", "1", "8",
                  ".", "i", "d", "x">>
Name980510 == <<"m", "a", "s", "t", "e", "r", ".", "9", "8", "0", "5", "1", "0",
                ".", "i", "d", "x">>
NameForm980510 == <<"f", "o", "r", "m", ".", "9", "8", "0", "5", "1", "0", ".", "i", "d", "x">>
NameShortRun == <<"m", "a", "s", "t", "e", "r", ".", "1", "2", "3", ".", "i", "d", "x">>

\* the listings the server may send for the root directory
TopListings ==
    { <<DirLine(Y1993), DirLine(Y1998)>>,
      <<FileLine(Name19980518), DirLine(Y1998)>>,
      <<DirLine(Misc), DirLine(Y1998)>>,
      <<TypeFirstLine(Y1998)>>,
      <<>> }

\* the listings the server may send for a directory below the root
SubListings ==
    { <<DirLine(Qtr2), DirLine(Name19980518)>>,
      <<FileLine(Name980510), DirLine(Qtr2)>>,
      <<FileLine(Name19980518), FileLine(NameForm980510)>>,
      <<TwoTypesLine(Qtr2), FileLine(Name980510)>>,
      <<FileLine(NameShortRun)>>,
      <<TypeFirstLine(Name980510)>>,
      <<FileLine(NameForm980510), TypeLastLine(Name980510)>> }

HasDir(listing) ==
    \E k \in 1..Len(listing) :
        /\ process_mlsd_line(listing[k]).raised = ""
        /\ process_mlsd_line(listing[k]).value.type = "dir"

\* directories nest at most MaxDepth deep below the root
MaxDepth == 2

Listings(depth) ==
    IF depth = 0 THEN TopListings
    ELSE {l \in SubListings : depth < MaxDepth \/ ~HasDir(l)}

\* the decoded text of the file of a name: the index of a day is the same
\* text wherever the server keeps it
TextOf980510 ==
    <<"a", "b", "\n">> \o Dashes(DIVIDER_LEN) \o <<"\n">>
       \o <<"1", "|", "A", "|", "K", "|", "D", "|", "d", "/", "x", "\n">>
       \o <<"2", "|", "B", "|", "Q", "|", "D", "|", "e", "d", "g", "a", "r", "/", "z", "\n">>
TextOf19980518 ==
    Dashes(DIVIDER_LEN) \o <<"\n">>
       \o <<"3", "|", "A", "|", "K", "|", "D", "|", "d", "/", "x", "\n">>
FileText(name) ==
    IF name = Name980510 THEN TextOf980510
    ELSE IF name = Name19980518 THEN TextOf19980518
    ELSE <<"a", "b", "\n">>

\* the ranges a reader is constructed with
ReadStarts == {None, Some(Date(1990, 1, 1)), Some(Date(1998, 5, 18))}
ReadEnds == {None, Some(Date(1998, 5, 18))}

-----------------------------------------------------------------------------
(* read() in daily mode: _read_daily_data, _get_dir_lists, _get_mlsd_tree *)

Login == [cmd |-> "login", dir |-> <<>>]
Close == [cmd |-> "close", dir |-> <<>>]
Mlsd(dir) == [cmd |-> "MLSD", dir |-> dir]

\* a call of _get_mlsd_tree(dir, top) that has not listed dir yet
NewCall(dir, top) ==
    [dir |-> dir, top |-> top, phase |-> "list", initial_mlsd |-> <<>>,
     mlsd |-> <<>>, i |-> 0]

Top(stk) == stk[Len(stk)]
SetTop(stk, f) == [stk EXCEPT ![Len(stk)] = f]
Pop(stk) == SubSeq(stk, 1, Len(stk) - 1)

\* the state after construction: the range is what _sanitize_dates made of the
\* arguments, and _SEC_FTP is connected and not logged in
Init ==
    /\ op = "" /\ arg = <<>> /\ ret = <<>>
    /\ pc = "idle"
    /\ \E s \in ReadStarts, e \in ReadEnds, ds \in BaseDefaults, de \in BaseDefaults :
          /\ start = sanitize_dates(s, e, ds, de)[1]
          /\ end = sanitize_dates(s, e, ds, de)[2]
    /\ session = "connected"
    /\ log = <<>>
    /\ served = <<>>
    /\ stack = <<>>
    /\ retval = <<>>
    /\ file_index = <<>>
    /\ pos = 0
    /\ fetched = <<>>
    /\ doc_index = <<>>
    /\ error = ""

\* read(), _read_daily_data up to the call of _get_dir_lists
Read ==
    /\ pc = "idle"
    /\ pc' = "get_dir_lists"
    /\ doc_index' = <<>>
    /\ UNCHANGED <<callVars, start, end, session, log, served, stack, retval,
                   file_index, pos, fetched, error>>

\* _get_dir_lists: _SEC_FTP.login(), and the call _get_mlsd_tree(_EDGAR_DAILY)
GetDirListsLogin ==
    /\ pc = "get_dir_lists"
    /\ session' = "loggedin"
    /\ log' = Append(log, Login)
    /\ stack' = <<NewCall(EDGAR_DAILY, TRUE)>>
    /\ pc' = "walk"
    /\ UNCHANGED <<callVars, start, end, served, retval, file_index, pos, fetched,
                   doc_index, error>>

\* _get_mlsd_tree: initial_mlsd = self._get_mlsd(dir); mlsd = initial_mlsd[:].
\* An error of a line ends read(), and nothing on the way out catches it.
GetMlsd ==
    /\ pc = "walk"
    /\ Top(stack).phase = "list"
    /\ \E dir_list \in Listings(Len(stack) - 1) :
        LET f == Top(stack)
            r == get_mlsd(f.dir, dir_list)
        IN  /\ log' = Append(log, Mlsd(f.dir))
            /\ served' = (f.dir :> dir_list) @@ served
            /\ IF r.raised # ""
               THEN /\ pc' = "raised"
                    /\ error' = r.raised
                    /\ stack' = stack
               ELSE /\ pc' = pc
                    /\ error' = error
                    /\ stack' = SetTop(stack, [f EXCEPT !.phase = "loop",
                                                         !.initial_mlsd = r.value,
                                                         !.mlsd = r.value,
                                                         !.i = 1])
    /\ UNCHANGED <<callVars, start, end, session, retval, file_index, pos, fetched,
                   doc_index>>

\* one pass of "for entry in initial_mlsd": a directory is entered, or skipped
\* at the top by the year check, or the year check raises
VisitEntry ==
    /\ pc = "walk"
    /\ Top(stack).phase = "loop"
    /\ Top(stack).i <= Len(Top(stack).initial_mlsd)
    /\ LET f == Top(stack)
           entry == f.initial_mlsd[f.i]
           y == check_mlsd_year(entry, start, end)
       IN  IF entry.type # "dir"
           THEN /\ stack' = SetTop(stack, [f EXCEPT !.i = f.i + 1])
                /\ UNCHANGED <<pc, error>>
           ELSE IF f.top /\ y.raised # ""
           THEN /\ pc' = "raised"
                /\ error' = y.raised
                /\ stack' = stack
           ELSE IF f.top /\ y.value # "True"
           THEN /\ stack' = SetTop(stack, [f EXCEPT !.i = f.i + 1])
                /\ UNCHANGED <<pc, error>>
           ELSE /\ stack' = Append(stack, NewCall(f.dir \o <<"/">> \o entry.name, FALSE))
                /\ UNCHANGED <<pc, error>>
    /\ UNCHANGED <<callVars, start, end, session, log, served, retval, file_index,
                   pos, fetched, doc_index>>

\* as ReturnMlsd, the caller putting the returned list before its own
ReturnMlsd_mut_prepend ==
    /\ pc = "walk"
    /\ Top(stack).phase = "loop"
    /\ Top(stack).i > Len(Top(stack).initial_mlsd)
    /\ IF Len(stack) > 1
       THEN LET g == stack[Len(stack) - 1]
            IN  /\ stack' = SetTop(Pop(stack), [g EXCEPT !.mlsd = Top(stack).mlsd \o g.mlsd,
                                                         !.i = g.i + 1])
                /\ UNCHANGED <<pc, retval>>
       ELSE /\ stack' = <<>>
            /\ retval' = Top(stack).mlsd
            /\ pc' = "close"
    /\ UNCHANGED <<callVars, start, end, session, log, served, file_index, pos,
                   fetched, doc_index, error>>

\* as ReturnMlsd, with the session closed at the return of every call
ReturnMlsd_mut_close_each ==
    /\ pc = "walk"
    /\ Top(stack).phase = "loop"
    /\ Top(stack).i > Len(Top(stack).initial_mlsd)
    /\ session' = "closed"
    /\ log' = Append(log, Close)
    /\ IF Len(stack) > 1
       THEN LET g == stack[Len(stack) - 1]
            IN  /\ stack' = SetTop(Pop(stack), [g EXCEPT !.mlsd = g.mlsd \o Top(stack).mlsd,
                                                         !.i = g.i + 1])
                /\ UNCHANGED <<pc, retval>>
       ELSE /\ stack' = <<>>
            /\ retval' = Top(stack).mlsd
            /\ pc' = "close"
    /\ UNCHANGED <<callVars, start, end, served, file_index, pos,
                   fetched, doc_index, error>>

\* "return mlsd": the caller extends its own list by it and goes on with its
\* next entry; the outermost call returns to _get_dir_lists
ReturnMlsd ==
    /\ pc = "walk"
    /\ Top(stack).phase = "loop"
    /\ Top(stack).i > Len(Top(stack).initial_mlsd)
    /\ IF Len(stack) > 1
       THEN LET g == stack[Len(stack) - 1]
            IN  /\ stack' = SetTop(Pop(stack), [g EXCEPT !.mlsd = g.mlsd \o Top(stack).mlsd,
                                                         !.i = g.i + 1])
                /\ UNCHANGED <<pc, retval>>
       ELSE /\ stack' = <<>>
            /\ retval' = Top(stack).mlsd
            /\ pc' = "close"
    /\ UNCHANGED <<callVars, start, end, session, log, served, file_index, pos,
                   fetched, doc_index, error>>

\* _get_dir_lists: _SEC_FTP.close(); return mlsd_tree, which becomes file_index
GetDirListsClose ==
    /\ pc = "close"
    /\ session' = "closed"
    /\ log' = Append(log, Close)
    /\ file_index' = retval
    /\ pos' = 1
    /\ pc' = "daily"
    /\ UNCHANGED <<callVars, start, end, served, stack, retval, fetched, doc_index, error>>

\* "for idx_entry in file_index": an entry that _check_idx does not accept
DailySkip ==
    /\ pc = "daily"
    /\ pos <= Len(file_index)
    /\ ~Truthy(check_idx(file_index[pos], start, end))
    /\ pos' = pos + 1
    /\ UNCHANGED <<callVars, pc, start, end, session, log, served, stack, retval,
                   file_index, fetched, doc_index, error>>

\* an accepted entry: its file is requested at url + path + '/' + name; the
\* request or the decoding fails, or _read_one_data parses the text and its
\* rows are appended to doc_index
DailyFetch ==
    /\ pc = "daily"
    /\ pos <= Len(file_index)
    /\ Truthy(check_idx(file_index[pos], start, end))
    /\ LET idx_entry == file_index[pos]
           daily_idx_url == URL_DAILY \o idx_entry.path \o <<"/">> \o idx_entry.name
       IN  \E r \in {read_one_data(FileText(idx_entry.name)), Raise("FetchError")} :
             /\ fetched' = Append(fetched, [entry |-> idx_entry, url |-> daily_idx_url,
                                            result |-> r])
             /\ IF r.raised # ""
                THEN /\ pc' = "raised"
                     /\ error' = r.raised
                     /\ UNCHANGED <<doc_index, pos>>
                ELSE /\ doc_index' = doc_index \o r.value
                     /\ pos' = pos + 1
                     /\ UNCHANGED <<pc, error>>
    /\ UNCHANGED <<callVars, start, end, session, log, served, stack, retval, file_index>>

\* "return doc_index"
DailyReturn ==
    /\ pc = "daily"
    /\ pos > Len(file_index)
    /\ pc' = "done"
    /\ UNCHANGED <<callVars, start, end, session, log, served, stack, retval,
                   file_index, pos, fetched, doc_index, error>>

Next ==
    \/ Read
    \/ GetDirListsLogin
    \/ GetMlsd
    \/ VisitEntry
    \/ ReturnMlsd
    \/ GetDirListsClose
    \/ DailySkip
    \/ DailyFetch
    \/ DailyReturn

Spec == Init /\ [][Next]_vars

-----------------------------------------------------------------------------
(* The inputs of single calls *)

\* two-digit groups, out of which the digit runs of filenames are made
Pairs == {<<"0", "0">>, <<"0", "2">>, <<"0", "5">>, <<"0", "7">>, <<"1", "2">>,
          <<"1", "3">>, <<"1", "5">>, <<"1", "6">>, <<"2", "9">>, <<"3", "1">>,
          <<"6", "9">>, <<"9", "4">>, <<"9", "8">>}
Centuries == {<<"1", "9">>, <<"2", "0">>, <<"0", "0">>}

Runs6 == {a \o b \o c : a \in Pairs, b \in Pairs, c \in Pairs}
Runs8 == {a \o b \o c \o d : a \in Centuries, b \in {<<"0", "0">>, <<"9", "4">>, <<"9", "8">>},
                             c \in Pairs, d \in Pairs}

\* runs of every length from 0 to MaxRunLen, lengths other than 6 and 8 among them
MaxRunLen == 9
SampleDigits == <<"1", "9", "9", "8", "0", "5", "1", "8", "0", "1">>
RunsByLen == {SubSeq(SampleDigits, 1, n) : n \in 0..MaxRunLen}

\* a few runs for names of other shapes and for directory entries
FewRuns == {<<"9", "8", "0", "5", "1", "0">>, <<"9", "8", "0", "6", "0", "1">>,
            <<"0", "7", "0", "1", "9", "4">>, <<"9", "4", "0", "7", "0", "1">>,
            <<"1", "9", "9", "8", "0", "5", "1", "8">>,
            <<"1", "9", "9", "9", "0", "1", "0", "1">>,
            <<"1", "9", "9", "4", "0", "6", "3", "0">>,
            <<"2", "0", "1", "5", "0", "1", "0", "2">>,
            <<"9", "8", "1", "3", "0", "5">>, <<"1", "2", "3">>, <<>>}

Master == <<"m", "a", "s", "t", "e", "r">>
Form == <<"f", "o", "r", "m">>
Dot == <<".">>
DotGz == <<".", "g", "z">>
DotTxt == <<".", "t", "x", "t">>

NameOf(a) == a.prefix \o a.sep \o a.run \o a.ext

\* filenames prefix.run.idx with every run, and names of other shapes
NamePool ==
    {[prefix |-> q, sep |-> Dot, run |-> r, ext |-> DotIdx] :
        q \in {Master}, r \in Runs6 \cup Runs8 \cup RunsByLen}
    \cup {[prefix |-> q, sep |-> sp, run |-> r, ext |-> x] :
        q \in {Master, Form, <<>>, Master \o DotIdx},
        sp \in {Dot, <<>>, Dot \o Dot},
        r \in FewRuns,
        x \in {DotIdx, DotIdx \o DotGz, DotTxt, <<>>, DotIdx \o Dot \o <<"1", "2">> \o DotIdx}}

\* the names of the entries given to _check_idx
IdxNamePool ==
    {[prefix |-> q, sep |-> Dot, run |-> r, ext |-> x] :
        q \in {Master, Form}, r \in FewRuns, x \in {DotIdx, DotIdx \o DotGz, DotTxt}}

IdxStarts == {None, Some(Date(1990, 1, 1)), Some(Date(1998, 1, 1)),
              Some(Date(1998, 5, 18)), Some(Date(1999, 1, 1))}
IdxEnds == {None, Some(Date(1994, 7, 2)), Some(Date(1998, 5, 18)),
            Some(Date(1998, 12, 31)), Some(Date(1999, 12, 31))}

DatePool == {Date(1990, 1, 1), Date(1994, 6, 30), Date(1994, 7, 1), Date(1994, 7, 2),
             Date(1998, 1, 1), Date(1998, 5, 18), Date(1998, 12, 31),
             Date(1999, 1, 1), Date(1999, 12, 31), Date(2015, 1, 2), Date(2016, 1, 1)}
OptDates == {None} \cup {Some(d) : d \in DatePool}

\* the lines of index files: header text, rules of 13, 14 and 15 hyphens,
\* a rule inside other text, data lines, a blank line
LinePool ==
    { <<"a", "b">>,
      Dashes(DIVIDER_LEN - 1), Dashes(DIVIDER_LEN),
      <<"x">> \o Dashes(DIVIDER_LEN + 1) \o <<"x">>,
      <<"1", "|", "A", "|", "K", "|", "D", "|", "d", "/", "x">>,
      <<"2", "|", "B", "|", "Q", "|", "D", "|", "e", "d", "g", "a", "r", "/", "z">>,
      <<>> }

MaxLines == 3

\* the texts of exactly n lines, each ended by a newline
RECURSIVE TextsOfLines(_)
TextsOfLines(n) ==
    IF n = 0 THEN {<<>>}
    ELSE {t \o l \o <<"\n">> : t \in TextsOfLines(n - 1), l \in LinePool}

\* the texts of at most MaxLines lines; the last line may lack its newline
TextPool ==
    UNION {TextsOfLines(n) : n \in 0..MaxLines}
    \cup UNION {{t \o l : t \in TextsOfLines(n - 1), l \in LinePool \ {<<>>}} : n \in 1..MaxLines}

FileTypes == {"file", "dir"}

-----------------------------------------------------------------------------
(* Single calls: one method applied to one input *)

IdleRead ==
    /\ pc = "idle" /\ start = EDGAR_MIN_DATE /\ end = EDGAR_MIN_DATE
    /\ session = "connected" /\ log = <<>> /\ served = <<>> /\ stack = <<>>
    /\ retval = <<>> /\ file_index = <<>> /\ pos = 0 /\ fetched = <<>>
    /\ doc_index = <<>> /\ error = ""

InitCall == op = "" /\ arg = <<>> /\ ret = <<>> /\ IdleRead

CallGetIndexDate ==
    /\ op = ""
    /\ \E a \in NamePool :
        /\ op' = "get_index_date"
        /\ arg' = a
        /\ ret' = get_index_date(NameOf(a))
    /\ UNCHANGED readVars

\* an entry as _process_mlsd_line makes it, and a range as _sanitize_dates does
CallCheckIdx ==
    /\ op = ""
    /\ \E a \in IdxNamePool, t \in FileTypes, s \in IdxStarts, e \in IdxEnds,
          ds \in BaseDefaults, de \in BaseDefaults :
        /\ get_index_date(NameOf(a)).raised = ""
        /\ LET entry == [name |-> NameOf(a), type |-> t, date |-> get_index_date(NameOf(a)).value]
               range == sanitize_dates(s, e, ds, de)
           IN  /\ op' = "check_idx"
               /\ arg' = [shape |-> a, entry |-> entry, start |-> range[1], end |-> range[2]]
               /\ ret' = check_idx(entry, range[1], range[2])
    /\ UNCHANGED readVars

CallSanitizeDates ==
    /\ op = ""
    /\ \E s \in OptDates, e \in OptDates, ds \in BaseDefaults, de \in BaseDefaults :
        /\ op' = "sanitize_dates"
        /\ arg' = [start |-> s, end |-> e]
        /\ ret' = sanitize_dates(s, e, ds, de)
    /\ UNCHANGED readVars

CallRemoveHeader ==
    /\ op = ""
    /\ \E t \in TextPool :
        /\ op' = "remove_header"
        /\ arg' = t
        /\ ret' = remove_header(t)
    /\ UNCHANGED readVars

CallReadOneData ==
    /\ op = ""
    /\ \E t \in TextPool :
        /\ op' = "read_one_data"
        /\ arg' = t
        /\ ret' = read_one_data(t)
    /\ UNCHANGED readVars

NextCall ==
    \/ CallGetIndexDate
    \/ CallCheckIdx
    \/ CallSanitizeDates
    \/ CallRemoveHeader
    \/ CallReadOneData

SpecCall == InitCall /\ [][NextCall]_vars

-----------------------------------------------------------------------------
(* Properties of single calls *)

\* the k-th two-digit group of a digit run, as a number
Group(run, k) == DecimalValue(SubSeq(run, 2 * k - 1, 2 * k))

\* a date as the number yyyymmdd, which orders dates as the calendar does
Ordinal(d) == d.year * 10000 + d.month * 100 + d.day

\* a name <word>.<run>.idx, possibly followed by .gz: its digit run is a.run
PlainIdxName(a) ==
    /\ a.prefix \in {Master, Form}
    /\ a.sep = Dot
    /\ a.ext \in {DotIdx, DotIdx \o DotGz}

Century(yy) == IF yy >= 69 THEN 1900 ELSE 2000

\* the date the claim C1 gives for a digit run, <<>> for absent; defined for
\* the runs that are well-formed dates
ExpectedDate(run) ==
    IF Len(run) = 6 /\ SubSeq(run, 5, 6) = <<"9", "4">>
    THEN Some(Date(1994, Group(run, 1), Group(run, 2)))
    ELSE IF Len(run) = 6
    THEN LET d == Date(Century(Group(run, 1)) + Group(run, 1), Group(run, 2), Group(run, 3))
         IN  IF Ordinal(d) > 19980515 THEN None ELSE Some(d)
    ELSE Some(Date(100 * Group(run, 1) + Group(run, 2), Group(run, 3), Group(run, 4)))

\* the digit run is a well-formed date in the reading C1 gives it
WellFormedRun(run) ==
    IF Len(run) = 6 /\ SubSeq(run, 5, 6) = <<"9", "4">>
    THEN ValidDate(1994, Group(run, 1), Group(run, 2))
    ELSE IF Len(run) = 6
    THEN ValidDate(Century(Group(run, 1)) + Group(run, 1), Group(run, 2), Group(run, 3))
    ELSE /\ Len(run) = 8
         /\ ValidDate(100 * Group(run, 1) + Group(run, 2), Group(run, 3), Group(run, 4))

Name940701 == Master \o Dot \o <<"9", "4", "0", "7", "0", "1">> \o DotIdx
Name980601 == Master \o Dot \o <<"9", "8", "0", "6", "0", "1">> \o DotIdx

\* C1: for a filename whose digit run is a well-formed date, _get_index_date
\* returns the date read as MMDDYY when the 6-digit run ends in 94, as YYMMDD
\* for any other 6-digit run (absent when after 1998-05-15), as YYYYMMDD for
\* an 8-digit run; the four examples of the specification come out as given
C1_DateDisambiguation ==
    op = "get_index_date" =>
        /\ (PlainIdxName(arg) /\ WellFormedRun(arg.run)) => ret = Ok(ExpectedDate(arg.run))
        /\ NameOf(arg) = Name940701 => ret = Ok(Some(Date(1994, 7, 1)))
        /\ NameOf(arg) = Name980510 => ret = Ok(Some(Date(1998, 5, 10)))
        /\ NameOf(arg) = Name980601 => ret = Ok(None)
        /\ NameOf(arg) = Name19980518 => ret = Ok(Some(Date(1998, 5, 18)))

C1_Witness ==
    /\ op = "get_index_date"
    /\ NameOf(arg) = Name980601
    /\ ret = Ok(None)

\* C2: _get_index_date never raises: a name without a match, a digit run of a
\* length other than 6 and 8, and a run that is no calendar date all give None
C2_Total ==
    op = "get_index_date" =>
        /\ ret.raised = ""
        /\ (PlainIdxName(arg) /\ ~WellFormedRun(arg.run)) => ret = Ok(None)

\* C4: _check_idx accepts an entry exactly when its name matches
\* master.<digits>.idx, its date is present and start <= date <= end
C4_LocatorIff ==
    op = "check_idx" =>
        (Truthy(ret) <=>
            /\ arg.shape.prefix = Master
            /\ arg.shape.ext \in {DotIdx, DotIdx \o DotGz}
            /\ arg.entry.date # None
            /\ Ordinal(arg.start) <= Ordinal(arg.entry.date[1])
            /\ Ordinal(arg.entry.date[1]) <= Ordinal(arg.end))

C4_Witness ==
    /\ op = "check_idx"
    /\ arg.entry.name = Name980510
    /\ arg.start = Date(1998, 1, 1) /\ arg.end = Date(1998, 12, 31)
    /\ Truthy(ret)

\* the given or defaulted start and end of a call of _sanitize_dates
GivenStart == IF arg.start = None THEN Date(2015, 1, 1) ELSE arg.start[1]
GivenEnd == IF arg.end = None THEN Date(2015, 1, 3) ELSE arg.end[1]

\* C7 as stated: every range _sanitize_dates returns has start <= end and
\* start >= 1994-07-01, with the defaults 2015-01-01 and 2015-01-03
C7_RangeInvariant ==
    op = "sanitize_dates" =>
        /\ Ordinal(ret[1]) <= Ordinal(ret[2])
        /\ Ordinal(ret[1]) >= 19940701
        /\ arg.start = None => ret[1] = Date(2015, 1, 1)
        /\ arg.end = None => ret[2] = Date(2015, 1, 3)

\* C7 amended: start >= 1994-07-01, start is the given or defaulted start
\* raised to 1994-07-01, end is the given or defaulted end, and start <= end
\* holds exactly when that end is not before that start
C7_RangeClamped ==
    op = "sanitize_dates" =>
        /\ Ordinal(ret[1]) >= 19940701
        /\ ret[1] = (IF Ordinal(GivenStart) < 19940701 THEN Date(1994, 7, 1) ELSE GivenStart)
        /\ ret[2] = GivenEnd
        /\ (Ordinal(ret[1]) <= Ordinal(ret[2])) <=>
              (Ordinal(GivenStart) <= Ordinal(GivenEnd) /\ 19940701 <= Ordinal(GivenEnd))

C7_Witness ==
    /\ op = "sanitize_dates"
    /\ arg.start = Some(Date(1990, 1, 1)) /\ arg.end = None
    /\ ret = <<Date(1994, 7, 1), Date(2015, 1, 3)>>

\* the lines of a text without their newlines
TextLines(t) == Split(t, "\n")

\* a line holds a run of at least 14 hyphens
HasRule(line) ==
    \E i \in 1..Len(line) :
        /\ i + 13 <= Len(line)
        /\ \A k \in 0..13 : line[i + k] = "-"

\* the lines after the first line with a rule; none when no line has one
LaterLines(t) ==
    LET ls == TextLines(t)
        rules == {k \in 1..Len(ls) : HasRule(ls[k])}
    IN  IF rules = {} THEN <<>>
        ELSE SubSeq(ls, (CHOOSE k \in rules : \A j \in rules : k <= j) + 1, Len(ls))

\* C9: _remove_header drops every line up to and including the first divider
\* line and passes on the later lines, in order, a later divider line among
\* them (blank lines apart, which are no data); without a divider nothing is
\* passed on and the table is empty, not an error
C9_HeaderStripped ==
    /\ op = "remove_header" =>
          SelectNonEmpty(TextLines(ret)) = SelectNonEmpty(LaterLines(arg))
    /\ (op = "read_one_data" /\ \A k \in 1..Len(TextLines(arg)) : ~HasRule(TextLines(arg)[k]))
          => ret = Ok(<<>>)

C9_Witness ==
    /\ op = "remove_header"
    /\ Len(SelectNonEmpty(LaterLines(arg))) = 2
    /\ HasRule(LaterLines(arg)[2])
    /\ Len(SelectNonEmpty(TextLines(ret))) = 2

-----------------------------------------------------------------------------
(* Properties of read() in daily mode *)

IsNumeric(name) == name # <<>> /\ \A k \in 1..Len(name) : name[k] \in Digits

\* the directory an entry names
SubDir(e) == e.path \o <<"/">> \o e.name

\* _get_dir_lists has returned its list
WalkCompleted == pc \in {"daily", "done"} \/ (pc = "raised" /\ session = "closed")

\* the entries of the listing the server sent for dir
EntriesOf(dir) == get_mlsd(dir, served[dir]).value

\* a directory entry that the walk is to enter: below the top every one, at
\* the top those whose name is a number of a year of the range
ToEnter(e, top) ==
    /\ e.type = "dir"
    /\ top => /\ IsNumeric(e.name)
              /\ start.year <= DecimalValue(e.name)
              /\ DecimalValue(e.name) <= end.year

Unlisted == [modify |-> "", type |-> "unlisted", name |-> <<>>, date |-> None, path |-> <<>>]

\* the pre-order of the tree the server sent: the entries of dir, then the
\* subtree of each entered directory among them, in listing order
RECURSIVE PreOrder(_, _)
RECURSIVE SubTrees(_, _, _)
PreOrder(dir, top) ==
    IF dir \notin DOMAIN served THEN <<Unlisted>>
    ELSE EntriesOf(dir) \o SubTrees(EntriesOf(dir), top, 1)
SubTrees(es, top, k) ==
    IF k > Len(es) THEN <<>>
    ELSE (IF ToEnter(es[k], top) THEN PreOrder(SubDir(es[k]), FALSE) ELSE <<>>)
         \o SubTrees(es, top, k + 1)

\* _check_idx accepts the entry, as the specification words it
Accepted(e) ==
    /\ FilenameMasterMatch(e.name)
    /\ e.date # None
    /\ Ordinal(start) <= Ordinal(e.date[1])
    /\ Ordinal(e.date[1]) <= Ordinal(end)

RECURSIVE SelectAccepted(_)
SelectAccepted(es) ==
    IF es = <<>> THEN <<>>
    ELSE (IF Accepted(es[1]) THEN <<es[1]>> ELSE <<>>) \o SelectAccepted(Tail(es))

RECURSIVE RowsOf(_)
RowsOf(fs) == IF fs = <<>> THEN <<>> ELSE fs[1].result.value \o RowsOf(Tail(fs))

\* C3: at the top level only directories named by a year of the range are
\* entered; a top-level directory with a non-numeric name is passed over and
\* the walk goes on; below the top level every directory is entered
C3_YearPruning ==
    /\ \A k \in 1..Len(stack) :
          k = 2 => \E e \in {stack[1].initial_mlsd[j] : j \in 1..Len(stack[1].initial_mlsd)} :
                      /\ stack[2].dir = SubDir(e)
                      /\ ToEnter(e, TRUE)
    /\ ~( /\ pc = "raised"
          /\ Len(stack) = 1
          /\ Top(stack).phase = "loop"
          /\ Top(stack).initial_mlsd[Top(stack).i].type = "dir"
          /\ ~IsNumeric(Top(stack).initial_mlsd[Top(stack).i].name) )
    /\ WalkCompleted =>
          \A k \in 1..Len(file_index) :
              (file_index[k].type = "dir" /\ file_index[k].path # EDGAR_DAILY)
                  => SubDir(file_index[k]) \in DOMAIN served

\* C5: no file is requested for an entry of kind dir
C5_NoDirFetched ==
    \A k \in 1..Len(fetched) : fetched[k].entry.type = "file"

\* C6: a completed read has requested exactly the accepted entries, in the
\* pre-order of the walk, and its table is the rows of those files in that
\* order; it is empty when no entry is accepted
C6_TraversalOrder ==
    pc = "done" =>
        /\ file_index = PreOrder(EDGAR_DAILY, TRUE)
        /\ [k \in 1..Len(fetched) |-> fetched[k].entry]
              = SelectAccepted(PreOrder(EDGAR_DAILY, TRUE))
        /\ doc_index = RowsOf(fetched)
        /\ SelectAccepted(PreOrder(EDGAR_DAILY, TRUE)) = <<>> => doc_index = <<>>

C6_Witness ==
    /\ pc = "done"
    /\ Len(fetched) = 2
    /\ fetched[1].entry.path # fetched[2].entry.path
    /\ Len(fetched[1].result.value) = 2
    /\ Len(fetched[2].result.value) = 1
    /\ Len(doc_index) = 3

\* C8: every MLSD is sent after the login and before the close, and a
\* completed walk has sent one login, then its MLSDs, then one close
C8_SessionLifecycle ==
    /\ \A k \in 1..Len(log) :
          log[k].cmd = "MLSD" =>
              /\ \E j \in 1..(k - 1) : log[j] = Login
              /\ \A j \in 1..(k - 1) : log[j] # Close
    /\ WalkCompleted =>
          /\ Len(log) >= 3
          /\ log[1] = Login
          /\ log[Len(log)] = Close
          /\ \A k \in 2..(Len(log) - 1) : log[k].cmd = "MLSD"

C8_Witness ==
    /\ pc = "done"
    /\ Len(log) = 6
    /\ session = "closed"

\* C10: when _get_dir_lists has ended, by its return or by an error of the
\* walk, the session is closed
C10_ClosedOnExit ==
    pc \in {"raised", "daily", "done"} => session = "closed"

====
